---- MODULE Spec2Model ----
(***************************************************************************)
(* The non-streaming request path of the groq client                       *)
(* (src/groq/completion.go): client.makeReq and the rate-limit retry loop  *)
(* of client.CreateChatCompletion, as a state machine over one call.       *)
(*                                                                         *)
(* The transport (http.Client.Do, io.ReadAll) and json.Marshal are the     *)
(* environment: every makeReq draws its outcome from Outcomes.             *)
(*                                                                         *)
(* Further specifications of the same client: ParserSpec (extractRetryTime *)
(* applied to a message), ConcSpec (several calls on one client) and       *)
(* StreamSpec (the streaming pipeline behind CreateChatCompletionStream).  *)
(***************************************************************************)
EXTENDS Integers, Sequences, FiniteSets, TLC

VARIABLES
    req_Stream,                   \* ChatCompletionRequest.Stream
    wait_on_ratelimit,            \* client.wait_on_ratelimit
    max_wait_on_ratelimit_in_ms,  \* client.max_wait_on_ratelimit_in_ms
    pc,                           \* position of the call in CreateChatCompletion
    resp,                         \* local resp  (*http.Response, may be nil)
    body,                         \* local body  ([]byte, may be nil)
    err,                          \* local err of the function scope (line 146, 157)
    loopErr,                      \* local err of the loop-body scope (line 161, 171)
    retry,                        \* local retry (line 149)
    requests,                     \* number of c.client.Do calls issued so far
    waits,                        \* durations (ms) of the time.Sleep calls so far
    retryMs,                      \* local retryMs (line 162)
    received,                     \* the responses the transport delivered, in order
    result,                       \* what the call handed back to its caller
    message,                      \* argument of ExtractRetryTime
    extracted,                    \* what ExtractRetryTime returned
    apiKey,                       \* client.apiKey
    calls,                        \* the locals of each of several concurrent calls
    frames,                       \* event-stream frames the connection will deliver
    nread,                        \* frames the pipeline has read from the connection
    producer,                     \* position of the pipeline task
    pending,                      \* delta parsed but not yet put on the channel
    channel,                      \* deltas buffered in the channel
    chClosed,                     \* the channel has been closed
    connClosed,                   \* the connection has been closed
    delivered,                    \* deltas the consumer has received, in order
    cancelled,                    \* the cancellation handle has been invoked
    streamErr                     \* terminal diagnostic of the stream

callVars == << req_Stream, wait_on_ratelimit, max_wait_on_ratelimit_in_ms, pc, resp,
               body, err, loopErr, retry, retryMs, requests, waits, received,
               result >>

parserVars == << message, extracted >>

concVars == << apiKey, calls >>

streamVars == << frames, nread, producer, pending, channel, chClosed, connClosed,
                 delivered, cancelled, streamErr >>

\* what the actions of one call leave alone
others == << parserVars, concVars, streamVars >>

vars == << callVars, others >>

config == << req_Stream, wait_on_ratelimit, max_wait_on_ratelimit_in_ms >>

----------------------------------------------------------------------------
\* Bounds of the model

\* retry-after headers carry the integers 1..MaxRetryAfter (or no integer)
MaxRetryAfter == 1

\* the values of max_wait_on_ratelimit_in_ms the calls are configured with
MaxWaits == {500, 1500}

----------------------------------------------------------------------------
\* Program constants

\* http.StatusOK, http.StatusTooManyRequests
StatusOK == 200
StatusTooManyRequests == 429

\* line 150: maxRetry := 5
maxRetryOneMore == 5 + 1
maxRetry == 5

\* the statuses a response carries: 200, 429 and one that is neither
Statuses == {StatusOK, StatusTooManyRequests, 500}

\* Header text: a sequence of characters; <<>> is the absent header
\* (Header.Get returns "").
Digits == <<"0", "1", "2", "3", "4", "5", "6", "7", "8", "9">>

DigitValue(c) == (CHOOSE i \in 1..10 : Digits[i] = c) - 1

IsDigit(c) == \E i \in 1..10 : Digits[i] = c

RetryAfterHeaders ==
    {<<>>, <<"x">>} \cup {<<Digits[n + 1]>> : n \in 1..MaxRetryAfter}

\* Response bodies, by what json.Unmarshal makes of them:
\*   completion   {"id":"c","choices":[...]}   decodes into both structs
\*   envelope     {"error":{"message":"m"}}    decodes into both structs
\*   error_text   {"error":"m"}                error is no object: ErrorResponse fails
\*   id_number    {"id":7}                     id is no string: ChatCompletionResponse fails
\*   not_json     <html>...                    both fail
BodyTexts == {"completion", "envelope", "error_text", "id_number", "not_json"}

NilResp == [isNil |-> TRUE, StatusCode |-> 0, RetryAfter |-> <<>>]
NilBody == [isNil |-> TRUE, text |-> "", id |-> 0]

\* What one makeReq can meet: json.Marshal fails, Do fails, ReadAll fails,
\* or a response arrives.
Outcomes ==
    [kind : {"marshal_fail", "send_fail", "read_fail"},
     StatusCode : {0}, RetryAfter : {<<>>}, text : {""}]
    \cup
    [kind : {"response"},
     StatusCode : Statuses, RetryAfter : RetryAfterHeaders, text : BodyTexts]

----------------------------------------------------------------------------
\* Pure functions

\* strconv.Atoi of a header value (unsigned decimal digits)
RECURSIVE DecimalValue(_)
DecimalValue(s) ==
    IF s = <<>> THEN 0
    ELSE 10 * DecimalValue(SubSeq(s, 1, Len(s) - 1)) + DigitValue(s[Len(s)])

AtoiLenient(s) ==
    [val |-> IF s # <<>> /\ \A i \in 1..Len(s) : IsDigit(s[i])
             THEN DecimalValue(s) ELSE 0,
     err |-> "nil"]
Atoi(s) ==
    IF s # <<>> /\ \A i \in 1..Len(s) : IsDigit(s[i])
    THEN [val |-> DecimalValue(s), err |-> "nil"]
    ELSE [val |-> 0, err |-> "atoi"]

\* json.Unmarshal(body, &errResp)
UnmarshalErrorResponse(b) ==
    IF ~b.isNil /\ b.text \in {"completion", "envelope", "id_number"}
    THEN "nil" ELSE "unmarshal"

\* json.Unmarshal(body, &chatResp)
UnmarshalChatResponse(b) ==
    IF ~b.isNil /\ b.text \in {"completion", "envelope", "error_text"}
    THEN "nil" ELSE "unmarshal"

\* lines 166-168: clamp the wait to the configured maximum
ClampWaitNoClamp(ms, maxMs) == ms
ClampWait(ms, maxMs) == IF maxMs < ms THEN maxMs ELSE ms

\* lines 110-142: what makeReq returns for outcome o as the n-th request
makeReq(stream, o, n) ==
    IF stream
    THEN [resp |-> NilResp, body |-> NilBody, err |-> "InvalidMode", sent |-> FALSE]
    ELSE IF o.kind = "marshal_fail"
    THEN [resp |-> NilResp, body |-> NilBody, err |-> "marshal", sent |-> FALSE]
    ELSE IF o.kind = "send_fail"
    THEN [resp |-> NilResp, body |-> NilBody, err |-> "send", sent |-> TRUE]
    ELSE IF o.kind = "read_fail"
    THEN [resp |-> NilResp, body |-> NilBody, err |-> "read", sent |-> TRUE]
    ELSE [resp |-> [isNil |-> FALSE, StatusCode |-> o.StatusCode,
                    RetryAfter |-> o.RetryAfter],
          body |-> [isNil |-> FALSE, text |-> o.text, id |-> n],
          err |-> "nil", sent |-> TRUE]

----------------------------------------------------------------------------
\* Results handed to the caller

NoResult == [kind |-> "none", err |-> "", code |-> 0, body |-> NilBody]

\* return &chatResp, nil
Response(b) == [kind |-> "response", err |-> "nil", code |-> 0, body |-> b]

\* return nil, <error e mentioning status code c and body b>
Error(e, c, b) == [kind |-> "error", err |-> e, code |-> c, body |-> b]

\* a nil *http.Response is dereferenced: the goroutine panics
Panic == [kind |-> "panic", err |-> "nil pointer dereference", code |-> 0,
          body |-> NilBody]

Terminal == pc \in {"Success", "Failed", "Panicked"}

TypeOK ==
    /\ req_Stream \in BOOLEAN
    /\ wait_on_ratelimit \in BOOLEAN
    /\ max_wait_on_ratelimit_in_ms \in MaxWaits
    /\ pc \in {"Sending", "Received", "RateLimited", "Waiting",
               "Success", "Failed", "Panicked"}
    /\ retry \in 0..(maxRetry + 1)
    /\ requests \in 0..(maxRetry + 2)
    /\ Len(waits) <= maxRetry + 1

\* ExtractRetryTime has not been called
NotExtracted == [called |-> FALSE, ms |-> 0, err |-> "nil"]

ParserIdle == message = <<>> /\ extracted = NotExtracted

\* the locals of a call that has not started
CallFresh ==
    /\ pc = "Sending"
    /\ resp = NilResp
    /\ body = NilBody
    /\ err = "nil"
    /\ loopErr = "nil"
    /\ retry = 0
    /\ retryMs = 0
    /\ requests = 0
    /\ waits = <<>>
    /\ received = <<>>
    /\ result = NoResult

\* no call of CreateChatCompletion is made
CallIdle ==
    /\ req_Stream = FALSE
    /\ wait_on_ratelimit = FALSE
    /\ max_wait_on_ratelimit_in_ms = 0
    /\ CallFresh

\* no concurrent calls are made
ConcIdle == apiKey = "key" /\ calls = <<>>

\* no streaming call is made
StreamIdle ==
    /\ frames = <<>>
    /\ nread = 0
    /\ producer = "idle"
    /\ pending = 0
    /\ channel = <<>>
    /\ chClosed = FALSE
    /\ connClosed = FALSE
    /\ delivered = <<>>
    /\ cancelled = FALSE
    /\ streamErr = "nil"

Init ==
    /\ ParserIdle
    /\ ConcIdle
    /\ StreamIdle
    /\ req_Stream \in BOOLEAN
    /\ wait_on_ratelimit \in BOOLEAN
    /\ max_wait_on_ratelimit_in_ms \in MaxWaits
    /\ CallFresh

----------------------------------------------------------------------------
\* Conditions of the retry loop

\* line 151: resp.StatusCode == http.StatusTooManyRequests && retry <= maxRetry
LoopContinuesOnAnyError(status, n) == status # StatusOK /\ n <= maxRetry
LoopContinues(status, n) == status = StatusTooManyRequests /\ n <= maxRetry

\* line 153: retry > maxRetry
RetryExhaustedOffByOne(n) == n >= maxRetry
RetryExhausted(n) == n > maxRetry

\* line 158: err != nil after json.Unmarshal(body, &errResp)
ErrorBodyRejectedNever(b) == FALSE
ErrorBodyRejected(b) == UnmarshalErrorResponse(b) # "nil"

\* line 164: c.wait_on_ratelimit
WaitEnabledAlways(flag) == TRUE
WaitEnabled(flag) == flag

\* lines 185-190: decode the body and return
DecodeAnything(b) == Response(b)
Decode(b) ==
    IF UnmarshalChatResponse(b) = "nil"
    THEN Response(b)
    ELSE Error("DecodeError", 0, b)

PcOf(res) == IF res.kind = "response" THEN "Success" ELSE "Failed"

\* line 151 evaluated with status s and retry n, then lines 185-190 when the
\* loop is left: the next position and the result
LoopOrDecode(s, n, b) ==
    IF LoopContinues(s, n)
    THEN [pc |-> "RateLimited", result |-> NoResult]
    ELSE [pc |-> PcOf(Decode(b)), result |-> Decode(b)]

----------------------------------------------------------------------------
\* Actions

\* line 146 (retry = 0) and line 171 (retry > 0): c.makeReq(req)
Send ==
    /\ pc = "Sending"
    /\ \E o \in Outcomes :
         LET r == makeReq(req_Stream, o, requests + 1) IN
         \* json.Marshal of the same request gives the same result: a request
         \* that is re-issued has been marshalled before
         /\ o.kind = "marshal_fail" => retry = 0
         /\ resp' = r.resp
         /\ body' = r.body
         /\ IF retry = 0
            THEN err' = r.err /\ UNCHANGED loopErr
            ELSE loopErr' = r.err /\ UNCHANGED err
         /\ requests' = IF r.sent THEN requests + 1 ELSE requests
         /\ received' = IF r.resp.isNil THEN received
                        ELSE Append(received,
                                    [StatusCode |-> r.resp.StatusCode,
                                     RetryAfter |-> r.resp.RetryAfter,
                                     errOk |-> UnmarshalErrorResponse(r.body) = "nil"])
    /\ pc' = "Received"
    /\ UNCHANGED << others, config, retry, retryMs, waits, result >>

\* lines 148-151 and 185-190 after the first makeReq: err is not looked at,
\* resp.StatusCode is read at once
CheckFirst ==
    /\ pc = "Received"
    /\ retry = 0
    /\ IF resp.isNil
       THEN pc' = "Panicked" /\ result' = Panic
       ELSE IF resp.StatusCode # StatusOK
       THEN LET n == LoopOrDecode(resp.StatusCode, 0, body) IN
            pc' = n.pc /\ result' = n.result
       ELSE pc' = PcOf(Decode(body)) /\ result' = Decode(body)
    /\ UNCHANGED << others, config, resp, body, err, loopErr, retry, retryMs, requests,
                    waits, received >>

\* lines 177-181 after the makeReq of line 171, then the loop condition and
\* lines 185-190
CheckRetry ==
    /\ pc = "Received"
    /\ retry > 0
    /\ IF loopErr # "nil"
       THEN IF resp.isNil
            THEN pc' = "Panicked" /\ result' = Panic
            ELSE /\ pc' = "Failed"
                 /\ result' = Error("Failed to parse retry time", resp.StatusCode, body)
       ELSE LET n == LoopOrDecode(resp.StatusCode, retry, body) IN
            pc' = n.pc /\ result' = n.result
    /\ UNCHANGED << others, config, resp, body, err, loopErr, retry, retryMs, requests,
                    waits, received >>

\* lines 152-164, and for a client that does not wait lines 173-181 and the
\* loop condition: one pass through the loop body up to the sleep
RateLimited ==
    /\ pc = "RateLimited"
    /\ retry' = retry + 1
    /\ IF RetryExhausted(retry + 1)
       THEN /\ pc' = "Failed"
            /\ result' = Error("retry exhausted", resp.StatusCode, body)
            /\ UNCHANGED << err, loopErr, retryMs >>
       ELSE IF ErrorBodyRejected(body)
       THEN /\ err' = UnmarshalErrorResponse(body)
            /\ pc' = "Failed"
            /\ result' = Error("Failed to unmarshall the error body",
                               resp.StatusCode, body)
            /\ UNCHANGED << loopErr, retryMs >>
       ELSE LET a == Atoi(resp.RetryAfter) IN
            /\ err' = "nil"
            /\ loopErr' = a.err
            /\ retryMs' = a.val * 1000
            /\ IF WaitEnabled(wait_on_ratelimit)
               THEN pc' = "Waiting" /\ result' = NoResult
               ELSE IF a.err # "nil"
               THEN /\ pc' = "Failed"
                    /\ result' = Error("Failed to parse retry time",
                                       resp.StatusCode, body)
               ELSE LET n == LoopOrDecode(resp.StatusCode, retry + 1, body) IN
                    pc' = n.pc /\ result' = n.result
    /\ UNCHANGED << others, config, resp, body, requests, waits, received >>

\* lines 165-170: clamp to the configured maximum and sleep
Sleep ==
    /\ pc = "Waiting"
    /\ retryMs' = ClampWait(retryMs, max_wait_on_ratelimit_in_ms)
    /\ waits' = Append(waits, ClampWait(retryMs, max_wait_on_ratelimit_in_ms))
    /\ pc' = "Sending"
    /\ UNCHANGED << others, config, resp, body, err, loopErr, retry, requests, received,
                    result >>

Next == Send \/ CheckFirst \/ CheckRetry \/ RateLimited \/ Sleep

Spec == Init /\ [][Next]_vars

----------------------------------------------------------------------------
\* Vocabulary of the properties

MakeReqErrors == {"InvalidMode", "marshal", "send", "read"}

\* the last makeReq failed in the transport (Do or ReadAll)
TransportFailed == err \in {"send", "read"} \/ loopErr \in {"send", "read"}

\* no makeReq of the call has failed
NoMakeReqError == err \notin MakeReqErrors /\ loopErr \notin MakeReqErrors

\* response i was a 429 with a decodable error body and an integer retry-after
WellFormed429(i) ==
    /\ received[i].StatusCode = 429
    /\ received[i].errOk
    /\ Atoi(received[i].RetryAfter).err = "nil"

All429(n) == \A i \in 1..n : received[i].StatusCode = 429

----------------------------------------------------------------------------
\* C1: a call whose request has the streaming flag set ends with the
\* InvalidMode error returned to the caller, and no network request is issued.
C1_StreamFlagRejected ==
    (req_Stream /\ Terminal) =>
        /\ pc = "Failed"
        /\ result.kind = "error"
        /\ result.err = "InvalidMode"
        /\ requests = 0

\* C2: when the transport fails to send a request or to read its body, on the
\* first attempt or on a re-issued one, the call ends Failed with one error
\* returned to the caller.
C2_TransportFailureFails ==
    (TransportFailed /\ Terminal) => (pc = "Failed" /\ result.kind = "error")

\* C3: with waiting enabled at most 6 requests are issued; once 6 responses
\* have arrived and all are 429 nothing is waited for or sent any more, and the
\* call ends Failed carrying the status code and body of the 6th response.
C3_AtMostSixRequests ==
    wait_on_ratelimit =>
        /\ requests <= 6
        /\ (Len(received) = 6 /\ All429(6)) =>
               /\ pc \in {"Received", "RateLimited", "Failed"}
               /\ Terminal =>
                      /\ result.kind = "error"
                      /\ result.code = 429
                      /\ result.body.id = 6

C3_Witness ==
    /\ wait_on_ratelimit
    /\ pc = "Failed"
    /\ requests = 6
    /\ Len(received) = 6
    /\ All429(6)
    /\ result.err = "retry exhausted"

\* C4: with waiting enabled, for k in 1..5: after k well-formed 429 responses
\* the call is still running (it has not given up), and when response k+1 is
\* a 200 with a decodable body the call has made exactly k waits and k+1
\* requests and returns Success with the payload of response k+1.
C4_RetriesUntilSuccess ==
    \A k \in 1..5 :
        (wait_on_ratelimit /\ NoMakeReqError /\ Len(received) >= k
           /\ \A i \in 1..k : WellFormed429(i)) =>
            /\ Len(received) = k => ~Terminal
            /\ (Terminal /\ Len(received) = k + 1
                  /\ received[k + 1].StatusCode = 200
                  /\ UnmarshalChatResponse(body) = "nil") =>
                   /\ pc = "Success"
                   /\ Len(waits) = k
                   /\ requests = k + 1
                   /\ result.kind = "response"
                   /\ result.body.id = k + 1

C4_Witness ==
    /\ wait_on_ratelimit
    /\ pc = "Success"
    /\ Len(received) = 6
    /\ \A i \in 1..5 : WellFormed429(i)
    /\ Len(waits) = 5
    /\ result.body.id = 6

\* C5 as stated: with waiting disabled and a well-formed 429 as first
\* response, the call makes no wait and no further request and hands the 429
\* body to the caller as its answer (a returned response).
C5_BodyIsTheAnswer ==
    (~wait_on_ratelimit /\ Terminal /\ Len(received) >= 1 /\ WellFormed429(1)) =>
        /\ Len(waits) = 0
        /\ requests = 1
        /\ result.kind = "response"
        /\ result.body.id = 1

\* C5 as amended: with waiting disabled no wait is ever made and at most one
\* request is issued; a well-formed 429 as first response ends the call Failed
\* with the retry-budget error, which carries the 429 status code and that
\* response's body (no response is returned).
C5_NoWaitFailsWithBody ==
    ~wait_on_ratelimit =>
        /\ Len(waits) = 0
        /\ requests <= 1
        /\ pc \notin {"Waiting"}
        /\ (Terminal /\ Len(received) >= 1 /\ WellFormed429(1)) =>
               /\ pc = "Failed"
               /\ result.kind = "error"
               /\ result.err = "retry exhausted"
               /\ result.code = 429
               /\ result.body.id = 1

C5_Witness ==
    /\ ~wait_on_ratelimit
    /\ pc = "Failed"
    /\ Len(received) = 1
    /\ WellFormed429(1)
    /\ requests = 1
    /\ result.body.id = 1

\* C6: from RateLimited the call moves to Waiting only if waiting is enabled
\* and the retry budget is not exhausted, Waiting is always followed by
\* Sending and a request is re-issued only from Waiting; with waiting disabled
\* or the budget exhausted the next position is Failed or (the loop running on
\* with the same response, nothing waited for or sent) RateLimited again, and
\* a call that ends on a 429 response ends Failed.
C6_Step ==
    /\ pc = "RateLimited" =>
          /\ pc' = "Waiting" => (wait_on_ratelimit /\ retry < 5)
          /\ (~wait_on_ratelimit \/ retry >= 5) =>
                 /\ pc' \in {"Failed", "RateLimited"}
                 /\ retry >= 5 => pc' = "Failed"
                 /\ requests' = requests /\ waits' = waits
    /\ pc = "Waiting" => pc' = "Sending"
    /\ (pc' = "Sending" /\ pc # "Sending") => pc = "Waiting"

C6_RateLimitedTransitions ==
    /\ [][C6_Step]_vars
    /\ []((Terminal /\ ~resp.isNil /\ resp.StatusCode = 429) => pc = "Failed")

C6_Witness ==
    /\ pc = "Sending"
    /\ wait_on_ratelimit
    /\ retry = 5
    /\ Len(waits) = 5
    /\ resp.StatusCode = 429

\* C7: every wait lasts at most the configured maximum, and when the
\* retry-after header of the 429 before it is an integer n it lasts exactly
\* min(n * 1000, maximum) milliseconds.
C7_WaitIsClamped ==
    \A i \in 1..Len(waits) :
        LET h == Atoi(received[i].RetryAfter) IN
        /\ received[i].StatusCode = 429
        /\ waits[i] <= max_wait_on_ratelimit_in_ms
        /\ h.err = "nil" =>
               waits[i] = IF h.val * 1000 < max_wait_on_ratelimit_in_ms
                          THEN h.val * 1000
                          ELSE max_wait_on_ratelimit_in_ms

C7_Witness ==
    /\ Len(waits) >= 1
    /\ Atoi(received[1].RetryAfter).err = "nil"
    /\ Atoi(received[1].RetryAfter).val * 1000 > max_wait_on_ratelimit_in_ms
    /\ waits[1] = max_wait_on_ratelimit_in_ms

\* C8: a 429 response whose body does not decode as an error envelope is the
\* last response of the call: no wait and no request follows it, whatever the
\* waiting flag and the budget left, and the call ends Failed.
C8_UndecodableErrorBodyFails ==
    \A i \in 1..Len(received) :
        (received[i].StatusCode = 429 /\ ~received[i].errOk) =>
            /\ i = Len(received)
            /\ Len(waits) < i
            /\ requests = i
            /\ pc \in {"Received", "RateLimited", "Failed"}
            /\ Terminal => (pc = "Failed" /\ result.kind = "error")

C8_Witness ==
    /\ wait_on_ratelimit
    /\ pc = "Failed"
    /\ retry \in 2..4
    /\ received[Len(received)].StatusCode = 429
    /\ ~received[Len(received)].errOk
    /\ result.err = "Failed to unmarshall the error body"

\* C9: a 200 response is the last response of the call (no wait, no request
\* after it), and when its body does not decode as a ChatCompletionResponse
\* the call ends Failed with the decode error.
C9_UndecodableResponseFails ==
    /\ \A i \in 1..Len(received) :
          received[i].StatusCode = 200 =>
              /\ i = Len(received)
              /\ Len(waits) < i
              /\ requests = i
              /\ pc \in {"Received", "Success", "Failed"}
    /\ (Terminal /\ ~resp.isNil /\ resp.StatusCode = 200
          /\ UnmarshalChatResponse(body) # "nil") =>
           /\ pc = "Failed"
           /\ result.kind = "error"
           /\ result.err = "DecodeError"

C9_Witness ==
    /\ pc = "Failed"
    /\ Len(received) >= 2
    /\ resp.StatusCode = 200
    /\ UnmarshalChatResponse(body) # "nil"
    /\ result.err = "DecodeError"

\* C10: a call that has issued a request ends in Success with a returned
\* response or in Failed with a returned error, and in no other way.
C10_EndsInSuccessOrFailed ==
    (Terminal /\ requests >= 1) =>
        /\ pc \in {"Success", "Failed"}
        /\ pc = "Success" <=> result.kind = "response"
        /\ pc = "Failed" <=> result.kind = "error"

\* C16: a response whose status is neither 200 nor 429 is the last response
\* of the call: no wait and no request follows it, and the call's outcome is
\* the decoding of its body as a ChatCompletionResponse (the response when it
\* decodes, the decode error otherwise).
C16_OtherStatusDecoded ==
    \A i \in 1..Len(received) :
        received[i].StatusCode \notin {200, 429} =>
            /\ i = Len(received)
            /\ Len(waits) < i
            /\ requests = i
            /\ pc \in {"Received", "Success", "Failed"}
            /\ Terminal =>
                   IF UnmarshalChatResponse(body) = "nil"
                   THEN /\ pc = "Success"
                        /\ result.kind = "response"
                        /\ result.body.id = i
                   ELSE /\ pc = "Failed"
                        /\ result.kind = "error"
                        /\ result.err = "DecodeError"

C16_Witness ==
    /\ pc = "Success"
    /\ Len(received) = 3
    /\ received[3].StatusCode = 500
    /\ Len(waits) = 2
    /\ result.body.id = 3

\* C17 as stated: at the end of every call the number of requests issued is
\* the number of waits plus one.
C17_RequestsAreWaitsPlusOne ==
    Terminal => requests = Len(waits) + 1

C17_Step ==
    /\ waits' # waits =>
          /\ pc = "Waiting"
          /\ ~resp.isNil /\ resp.StatusCode = 429
          /\ Len(waits') = Len(waits) + 1
          /\ requests' = requests
          /\ pc' = "Sending"
    /\ (pc = "Sending" /\ Len(waits) > 0) => requests' = requests + 1
    /\ pc' = "Waiting" => (pc = "RateLimited" /\ requests' = requests)
    /\ pc' = "RateLimited" =>
          (pc \in {"Received", "RateLimited"} /\ requests' = requests)

\* C17 as amended: a wait is made only in Waiting, which is reached from a
\* received 429 with no request in between, and the step after a wait issues
\* a request; a call that issues no request makes no wait, and once a request
\* has been issued the number of requests is the number of waits plus one,
\* except between a wait and its re-issued request (where they are equal).
C17_WaitsBetween429AndRequest ==
    /\ [][C17_Step]_vars
    /\ [](/\ requests = 0 => Len(waits) = 0
          /\ pc = "Waiting" => (~resp.isNil /\ resp.StatusCode = 429
                                 /\ received[Len(received)].StatusCode = 429
                                 /\ Len(received) = requests)
          /\ (requests >= 1 /\ pc # "Sending") => requests = Len(waits) + 1
          /\ (requests >= 1 /\ pc = "Sending") => requests = Len(waits))

C17_Witness ==
    /\ Terminal
    /\ Len(waits) = 5
    /\ requests = 6
    /\ Len(received) = 6
    /\ received[6].StatusCode = 200

\* C19: with waiting disabled a call that gets a first response has issued
\* exactly one request, whatever that response is, and never waits; a
\* well-formed 429 leaves the response untouched while retry runs up to
\* maxRetry + 1, and the call fails.
C19_OneRequestWithoutWaiting ==
    ~wait_on_ratelimit =>
        /\ requests <= 1
        /\ Len(received) <= 1
        /\ Len(waits) = 0
        /\ Len(received) = 1 => requests = 1
        /\ (Terminal /\ Len(received) = 1 /\ WellFormed429(1)) =>
               /\ retry = 6
               /\ resp.StatusCode = 429
               /\ body.id = 1
               /\ pc = "Failed"

C19_Witness ==
    /\ ~wait_on_ratelimit
    /\ Terminal
    /\ retry = 6
    /\ requests = 1
    /\ resp.StatusCode = 429

\* response i carries no retry-after header or one that is no integer
BadHeader(i) == received[i].RetryAfter \in {<<>>, <<"x">>}

\* C20: the error of the retry-after header is returned only when waiting is
\* disabled, and then always (first response a 429 with a decodable error
\* body); with waiting enabled such a 429 (budget left) is followed by a wait
\* of 0 ms and a re-issued request, and the call never returns that error.
C20_HeaderParseFailure ==
    /\ result.err = "Failed to parse retry time" =>
          (~wait_on_ratelimit /\ BadHeader(Len(received)) /\ pc = "Failed")
    /\ (~wait_on_ratelimit /\ Terminal /\ Len(received) = 1
          /\ received[1].StatusCode = 429 /\ received[1].errOk /\ BadHeader(1)) =>
           /\ pc = "Failed"
           /\ result.err = "Failed to parse retry time"
           /\ result.code = 429
           /\ result.body.id = 1
    /\ wait_on_ratelimit =>
          \A i \in 1..Len(received) :
              (i <= 5 /\ received[i].StatusCode = 429 /\ received[i].errOk
                 /\ BadHeader(i)) =>
                  /\ Len(waits) >= i => waits[i] = 0
                  /\ (Len(received) = i /\ NoMakeReqError) => ~Terminal
                  /\ Len(received) > i => (Len(waits) >= i /\ requests > i)

C20_Witness ==
    /\ wait_on_ratelimit
    /\ pc = "Success"
    /\ Len(received) = 2
    /\ received[1].StatusCode = 429
    /\ BadHeader(1)
    /\ waits = <<0>>
    /\ result.body.id = 2

----------------------------------------------------------------------------
\* extractRetryTime (lines 192-223)

\* Bound: messages have at most MaxLen pieces
MaxLen == 5

\* A message is a sequence of pieces: the literal text of the pattern, single
\* digits, one run of 20 digits (a number beyond the range of int), single
\* letters and the full stop.
PleaseTryAgainIn == "Please try again in "
BigNumber == "99999999999999999999"
DigitPieces == {"1", "2", BigNumber}
LetterPieces == {"m", "s", "h", "S"}
Pieces == {PleaseTryAgainIn, "."} \cup DigitPieces \cup LetterPieces

Messages == UNION {[1..n -> Pieces] : n \in 0..MaxLen}

\* \d and [a-zA-Z] of the pattern at line 196
MatchesDigit(c) == IsDigit(c) \/ c = BigNumber
MatchesLetter(c) == c \in LetterPieces

\* (\d+) and ([a-zA-Z]+) are greedy: the first position from i on that holds
\* no digit (no letter)
RECURSIVE DigitsEnd(_, _)
DigitsEnd(m, i) ==
    IF i <= Len(m) /\ MatchesDigit(m[i]) THEN DigitsEnd(m, i + 1) ELSE i

RECURSIVE LettersEnd(_, _)
LettersEnd(m, i) ==
    IF i <= Len(m) /\ MatchesLetter(m[i]) THEN LettersEnd(m, i + 1) ELSE i

\* the pattern `Please try again in (\d+)([a-zA-Z]+)\.` matches at position i
MatchAtNoFullStop(m, i) ==
    /\ m[i] = PleaseTryAgainIn
    /\ DigitsEnd(m, i + 1) > i + 1
    /\ LettersEnd(m, DigitsEnd(m, i + 1)) > DigitsEnd(m, i + 1)
MatchAt(m, i) ==
    /\ m[i] = PleaseTryAgainIn
    /\ DigitsEnd(m, i + 1) > i + 1
    /\ LettersEnd(m, DigitsEnd(m, i + 1)) > DigitsEnd(m, i + 1)
    /\ LettersEnd(m, DigitsEnd(m, i + 1)) <= Len(m)
    /\ m[LettersEnd(m, DigitsEnd(m, i + 1))] = "."

\* re.FindStringSubmatch from position i on: the leftmost match and its two
\* groups, or nil
RECURSIVE FindFrom(_, _)
FindFrom(m, i) ==
    IF i > Len(m) THEN <<>>
    ELSE IF MatchAt(m, i)
    THEN LET d == DigitsEnd(m, i + 1)
             l == LettersEnd(m, d)
         IN << SubSeq(m, i, IF l <= Len(m) THEN l ELSE Len(m)),
               SubSeq(m, i + 1, d - 1), SubSeq(m, d, l - 1) >>
    ELSE FindFrom(m, i + 1)

FindStringSubmatch(m) == FindFrom(m, 1)

\* strconv.Atoi(matches[1]): a number of 20 digits or more is out of range
AtoiNumber(ds) ==
    IF \E k \in 1..Len(ds) : ds[k] = BigNumber
    THEN [val |-> 0, err |-> "value out of range"]
    ELSE Atoi(ds)

\* lines 207-222: the switch over the unit
UnitMsMinuteIsSecond(unit, v) ==
    IF unit = <<"m", "s">> THEN [ms |-> v, err |-> "nil"]
    ELSE IF unit \in {<<"s">>, <<"m">>} THEN [ms |-> v * 1000, err |-> "nil"]
    ELSE IF unit = <<"h">> THEN [ms |-> v * 60 * 60 * 1000, err |-> "nil"]
    ELSE [ms |-> 0, err |-> "unknown time unit"]
UnitMsDefaultIsMs(unit, v) ==
    IF unit = <<"s">> THEN [ms |-> v * 1000, err |-> "nil"]
    ELSE IF unit = <<"m">> THEN [ms |-> v * 60 * 1000, err |-> "nil"]
    ELSE IF unit = <<"h">> THEN [ms |-> v * 60 * 60 * 1000, err |-> "nil"]
    ELSE [ms |-> v, err |-> "nil"]
UnitMs(unit, v) ==
    IF unit = <<"m", "s">> THEN [ms |-> v, err |-> "nil"]
    ELSE IF unit = <<"s">> THEN [ms |-> v * 1000, err |-> "nil"]
    ELSE IF unit = <<"m">> THEN [ms |-> v * 60 * 1000, err |-> "nil"]
    ELSE IF unit = <<"h">> THEN [ms |-> v * 60 * 60 * 1000, err |-> "nil"]
    ELSE [ms |-> 0, err |-> "unknown time unit"]

\* lines 195-223
extractRetryTime(m) ==
    LET matches == FindStringSubmatch(m) IN
    IF Len(matches) < 3
    THEN [ms |-> 0, err |-> "retry time not found"]
    ELSE LET retryValue == AtoiNumber(matches[2]) IN
         IF retryValue.err # "nil"
         THEN [ms |-> 0, err |-> retryValue.err]
         ELSE UnitMs(matches[3], retryValue.val)

\* lines 192-194: ExtractRetryTime(message)
ExtractRetryTime ==
    /\ ~extracted.called
    /\ extracted' = [called |-> TRUE,
                     ms |-> extractRetryTime(message).ms,
                     err |-> extractRetryTime(message).err]
    /\ UNCHANGED << callVars, concVars, streamVars, message >>

ParserInit ==
    /\ CallIdle
    /\ ConcIdle
    /\ StreamIdle
    /\ message \in Messages
    /\ extracted = NotExtracted

ParserNext == ExtractRetryTime

ParserSpec == ParserInit /\ [][ParserNext]_vars

----------------------------------------------------------------------------
\* Vocabulary of the parser's properties

\* the text "Please try again in <nd digits><nl letters>." stands at position i
ShapeAt(m, i, nd, nl) ==
    /\ i + nd + nl + 1 <= Len(m)
    /\ m[i] = PleaseTryAgainIn
    /\ \A j \in (i + 1)..(i + nd) : m[j] \in DigitPieces
    /\ \A j \in (i + nd + 1)..(i + nd + nl) : m[j] \in LetterPieces
    /\ m[i + nd + nl + 1] = "."

ContainsShape(m) ==
    \E i \in 1..Len(m), nd \in 1..Len(m), nl \in 1..Len(m) : ShapeAt(m, i, nd, nl)

\* the leftmost occurrence of the shape in m is at i, with nd digits, nl letters
FirstShapeAt(m, i, nd, nl) ==
    /\ ShapeAt(m, i, nd, nl)
    /\ \A j \in 1..(i - 1) : \A d \in 1..Len(m), l \in 1..Len(m) : ~ShapeAt(m, j, d, l)

NumberOf(m, i, nd) == SubSeq(m, i + 1, i + nd)
UnitOf(m, i, nd, nl) == SubSeq(m, i + nd + 1, i + nd + nl)

FitsInt(ds) == \A k \in 1..Len(ds) : ds[k] # BigNumber

KnownUnits == {<<"m", "s">>, <<"s">>, <<"m">>, <<"h">>}

MsPerUnit(u) ==
    IF u = <<"m", "s">> THEN 1
    ELSE IF u = <<"s">> THEN 1000
    ELSE IF u = <<"m">> THEN 60000
    ELSE 3600000

\* C11: when the message's (first) "Please try again in N<unit>." has a number
\* N within the range of int and a unit among ms, s, m, h, ExtractRetryTime
\* returns without error N, N*1000, N*60000, N*3600000 milliseconds.
C11_KnownUnitsConvert ==
    extracted.called =>
        \A i \in 1..Len(message), nd \in 1..Len(message), nl \in 1..2 :
            (/\ FirstShapeAt(message, i, nd, nl)
             /\ FitsInt(NumberOf(message, i, nd))
             /\ UnitOf(message, i, nd, nl) \in KnownUnits) =>
                /\ extracted.err = "nil"
                /\ extracted.ms = DecimalValue(NumberOf(message, i, nd))
                                    * MsPerUnit(UnitOf(message, i, nd, nl))

C11_Witness ==
    /\ extracted.called
    /\ message = <<PleaseTryAgainIn, "1", "2", "m", ".">>
    /\ extracted.err = "nil"
    /\ extracted.ms = 720000

\* C12: for a message that holds no text of the shape
\* "Please try again in <digits><letters>.", ExtractRetryTime fails with the
\* pattern-not-found error and returns 0.
C12_NoPatternNotFound ==
    (extracted.called /\ ~ContainsShape(message)) =>
        (extracted.err = "retry time not found" /\ extracted.ms = 0)

C12_Witness ==
    /\ extracted.called
    /\ message = <<PleaseTryAgainIn, "2", "s">>
    /\ extracted.err = "retry time not found"

\* C13 as stated: when the message matches the pattern and the unit is none
\* of ms, s, m, h, ExtractRetryTime fails with the unknown-unit error and
\* returns 0.
C13_UnknownUnitAlways ==
    extracted.called =>
        \A i \in 1..Len(message), nd \in 1..Len(message), nl \in 1..Len(message) :
            (/\ FirstShapeAt(message, i, nd, nl)
             /\ UnitOf(message, i, nd, nl) \notin KnownUnits) =>
                (extracted.err = "unknown time unit" /\ extracted.ms = 0)

\* C13 as amended: the same, for a number within the range of int (a number
\* out of range fails with strconv.Atoi's error before the unit is looked at).
C13_UnknownUnitRejected ==
    extracted.called =>
        \A i \in 1..Len(message), nd \in 1..Len(message), nl \in 1..Len(message) :
            (/\ FirstShapeAt(message, i, nd, nl)
             /\ FitsInt(NumberOf(message, i, nd))
             /\ UnitOf(message, i, nd, nl) \notin KnownUnits) =>
                (extracted.err = "unknown time unit" /\ extracted.ms = 0)

C13_Witness ==
    /\ extracted.called
    /\ message = <<PleaseTryAgainIn, "1", "s", "S", ".">>
    /\ extracted.err = "unknown time unit"
    /\ extracted.ms = 0

----------------------------------------------------------------------------
\* Several CreateChatCompletion calls on one client, interleaved. Each call
\* runs lines 145-191 on locals of its own; apiKey, wait_on_ratelimit and
\* max_wait_on_ratelimit_in_ms are the fields of the client they share.

\* Bound: number of concurrent calls
NumCalls == 2

CallIds == 1..NumCalls

\* what a request of a concurrent call can meet
ConcOutcomes ==
    {o \in Outcomes :
        \/ o.kind = "send_fail"
        \/ /\ o.kind = "response"
           /\ o.StatusCode \in {StatusOK, StatusTooManyRequests}
           /\ o.RetryAfter = <<"1">>
           /\ o.text \in {"envelope", "not_json"}}

\* the locals of a call that has not started; n429 counts the 429 responses
\* the call has received and nwaits its sleeps
FreshCall ==
    [pc |-> "Sending", resp |-> NilResp, body |-> NilBody, loopErr |-> "nil",
     retry |-> 0, retryMs |-> 0, requests |-> 0, nwaits |-> 0, n429 |-> 0,
     result |-> NoResult]

\* line 149: retry is a local of the call: call c counts in its own locals
RetryOwnerShared(c) == 1
RetryOwner(c) == c

RetryOf(c) == calls[RetryOwner(c)].retry

\* calls with call c's locals replaced by r and its retry counter set to n
WithCall(c, r, n) ==
    [[calls EXCEPT ![c] = r] EXCEPT ![RetryOwner(c)].retry = n]

\* line 146 and line 171 of call c
ConcSend(c) ==
    /\ calls[c].pc = "Sending"
    /\ \E o \in ConcOutcomes :
         LET r == makeReq(FALSE, o, calls[c].requests + 1) IN
         calls' = WithCall(c,
                    [calls[c] EXCEPT
                       !.pc = "Received",
                       !.resp = r.resp,
                       !.body = r.body,
                       !.loopErr = r.err,
                       !.requests = IF r.sent THEN @ + 1 ELSE @,
                       !.n429 = IF ~r.resp.isNil
                                   /\ r.resp.StatusCode = StatusTooManyRequests
                                THEN @ + 1 ELSE @],
                    RetryOf(c))
    /\ UNCHANGED << callVars, parserVars, streamVars, apiKey >>

\* lines 148-151 and 177-190 of call c
ConcCheck(c) ==
    /\ calls[c].pc = "Received"
    /\ LET me == calls[c] IN
       IF me.resp.isNil
       THEN calls' = WithCall(c, [me EXCEPT !.pc = "Panicked", !.result = Panic],
                              RetryOf(c))
       ELSE IF me.requests = 1 /\ me.resp.StatusCode = StatusOK
       THEN calls' = WithCall(c, [me EXCEPT !.pc = PcOf(Decode(me.body)),
                                            !.result = Decode(me.body)],
                              RetryOf(c))
       ELSE LET n == LoopOrDecode(me.resp.StatusCode,
                                  IF me.requests = 1 THEN 0 ELSE RetryOf(c),
                                  me.body) IN
            calls' = WithCall(c, [me EXCEPT !.pc = n.pc, !.result = n.result],
                              IF me.requests = 1 THEN 0 ELSE RetryOf(c))
    /\ UNCHANGED << callVars, parserVars, streamVars, apiKey >>

\* lines 152-181 of call c, up to the sleep
ConcRateLimited(c) ==
    /\ calls[c].pc = "RateLimited"
    /\ LET me == calls[c]
           n == RetryOf(c) + 1
           a == Atoi(me.resp.RetryAfter)
       IN
       IF RetryExhausted(n)
       THEN calls' = WithCall(c,
                [me EXCEPT !.pc = "Failed",
                           !.result = Error("retry exhausted",
                                            me.resp.StatusCode, me.body)], n)
       ELSE IF ErrorBodyRejected(me.body)
       THEN calls' = WithCall(c,
                [me EXCEPT !.pc = "Failed",
                           !.result = Error("Failed to unmarshall the error body",
                                            me.resp.StatusCode, me.body)], n)
       ELSE IF WaitEnabled(wait_on_ratelimit)
       THEN calls' = WithCall(c,
                [me EXCEPT !.pc = "Waiting", !.loopErr = a.err,
                           !.retryMs = a.val * 1000], n)
       ELSE IF a.err # "nil"
       THEN calls' = WithCall(c,
                [me EXCEPT !.pc = "Failed", !.loopErr = a.err,
                           !.result = Error("Failed to parse retry time",
                                            me.resp.StatusCode, me.body)], n)
       ELSE LET l == LoopOrDecode(me.resp.StatusCode, n, me.body) IN
            calls' = WithCall(c,
                [me EXCEPT !.pc = l.pc, !.loopErr = a.err,
                           !.retryMs = a.val * 1000, !.result = l.result], n)
    /\ UNCHANGED << callVars, parserVars, streamVars, apiKey >>

\* lines 165-170 of call c
ConcSleep(c) ==
    /\ calls[c].pc = "Waiting"
    /\ calls' = WithCall(c,
            [calls[c] EXCEPT
               !.pc = "Sending",
               !.retryMs = ClampWait(@, max_wait_on_ratelimit_in_ms),
               !.nwaits = @ + 1],
            RetryOf(c))
    /\ UNCHANGED << callVars, parserVars, streamVars, apiKey >>

ConcInit ==
    /\ ParserIdle
    /\ StreamIdle
    /\ req_Stream = FALSE
    /\ wait_on_ratelimit \in BOOLEAN
    /\ max_wait_on_ratelimit_in_ms \in MaxWaits
    /\ CallFresh
    /\ apiKey = "key"
    /\ calls = [c \in CallIds |-> FreshCall]

ConcNext ==
    \E c \in CallIds :
        ConcSend(c) \/ ConcCheck(c) \/ ConcRateLimited(c) \/ ConcSleep(c)

ConcSpec == ConcInit /\ [][ConcNext]_vars

\* what call c's counters and outcome must be, given only the responses call c
\* itself has received
OwnResponsesDecide(c) ==
    LET me == calls[c] IN
    /\ me.retry > 0 => me.n429 >= 1
    /\ me.requests <= me.nwaits + 1
    /\ wait_on_ratelimit =>
          /\ me.retry <= me.n429
          /\ me.n429 <= me.retry + 1
          /\ me.nwaits <= me.retry
          /\ me.retry <= me.nwaits + 1
    /\ ~wait_on_ratelimit => (me.nwaits = 0 /\ me.requests <= 1)
    /\ me.result.err = "retry exhausted" =>
          /\ me.retry = 6
          /\ me.n429 = IF wait_on_ratelimit THEN 6 ELSE 1
          /\ me.result.body.id = me.requests
    /\ me.pc = "Success" =>
          /\ me.n429 = me.requests - 1
          /\ me.nwaits = me.n429
          /\ me.retry = me.n429
          /\ me.result.body.id = me.requests

ClientConfig == << apiKey, wait_on_ratelimit, max_wait_on_ratelimit_in_ms >>

\* C18: under every interleaving of the calls on one client, each call's
\* retry counter, waits and outcome follow from the responses that call
\* itself received (a 429 of one call never advances another call's retry),
\* and no step of any call changes the client's credential, waiting flag or
\* maximum wait.
C18_CallsIndependent ==
    /\ [](\A c \in CallIds : OwnResponsesDecide(c))
    /\ [][ClientConfig' = ClientConfig]_vars

C18_Witness ==
    /\ wait_on_ratelimit
    /\ calls[1].pc = "Success"
    /\ calls[1].retry = 2
    /\ calls[2].pc = "Failed"
    /\ calls[2].result.err = "retry exhausted"
    /\ calls[2].n429 = 6

----------------------------------------------------------------------------
\* The streaming pipeline of CreateChatCompletionStream. The interface
\* (lines 21-26) declares it; its contract is section 4.4 of the
\* specification: a task of its own reads frames from the connection, skips
\* malformed ones, puts each delta on the channel, closes the channel on the
\* termination sentinel, on a connection failure and on cancellation.

\* Bounds: frames on the connection, capacity of the channel
MaxFrames == 4
ChanCap == 2

FrameKinds == {"delta", "malformed", "sentinel"}

\* the connection delivers these frames and then fails
FrameSeqs == UNION {[1..n -> FrameKinds] : n \in 0..MaxFrames}

\* what the pipeline does with a frame it has read
OnFrameMalformedEmitted(f) ==
    IF f = "sentinel" THEN "finish" ELSE "emit"
OnFrame(f) ==
    IF f = "sentinel" THEN "finish"
    ELSE IF f = "malformed" THEN "skip"
    ELSE "emit"

\* positions of the pipeline in which it notices a cancellation
NoticesCancelOnlyReading(p) == p = "read"
NoticesCancel(p) == p \in {"read", "send"}

\* the pipeline reads the next frame (or meets the end of the connection);
\* the delta of frame i is identified by i
StreamRead ==
    /\ producer = "read"
    /\ ~cancelled
    /\ IF nread = Len(frames)
       THEN /\ producer' = "done"
            /\ chClosed' = TRUE
            /\ connClosed' = TRUE
            /\ streamErr' = "connection failed"
            /\ UNCHANGED << nread, pending >>
       ELSE /\ nread' = nread + 1
            /\ IF OnFrame(frames[nread + 1]) = "finish"
               THEN /\ producer' = "done"
                    /\ chClosed' = TRUE
                    /\ connClosed' = TRUE
                    /\ UNCHANGED pending
               ELSE IF OnFrame(frames[nread + 1]) = "skip"
               THEN UNCHANGED << producer, pending, chClosed, connClosed >>
               ELSE /\ producer' = "send"
                    /\ pending' = nread + 1
                    /\ UNCHANGED << chClosed, connClosed >>
            /\ UNCHANGED streamErr
    /\ UNCHANGED << callVars, parserVars, concVars, frames, channel, delivered,
                    cancelled >>

\* the pipeline puts the parsed delta on the channel, when there is room
\* (a send that is ready may win over a cancellation that is ready too)
StreamSend ==
    /\ producer = "send"
    /\ Len(channel) < ChanCap
    /\ channel' = Append(channel, pending)
    /\ pending' = 0
    /\ producer' = "read"
    /\ UNCHANGED << callVars, parserVars, concVars, frames, nread, chClosed,
                    connClosed, delivered, cancelled, streamErr >>

\* the pipeline notices the cancellation: it closes connection and channel
StreamAbort ==
    /\ cancelled
    /\ NoticesCancel(producer)
    /\ producer' = "done"
    /\ pending' = 0
    /\ chClosed' = TRUE
    /\ connClosed' = TRUE
    /\ UNCHANGED << callVars, parserVars, concVars, frames, nread, channel,
                    delivered, cancelled, streamErr >>

\* the caller invokes the cancellation handle
StreamCancel ==
    /\ producer # "idle"
    /\ ~cancelled
    /\ cancelled' = TRUE
    /\ UNCHANGED << callVars, parserVars, concVars, frames, nread, producer,
                    pending, channel, chClosed, connClosed, delivered, streamErr >>

\* the consumer receives the next delta from the channel
StreamReceive ==
    /\ channel # <<>>
    /\ delivered' = Append(delivered, Head(channel))
    /\ channel' = Tail(channel)
    /\ UNCHANGED << callVars, parserVars, concVars, frames, nread, producer,
                    pending, chClosed, connClosed, cancelled, streamErr >>

StreamInit ==
    /\ CallIdle
    /\ ParserIdle
    /\ ConcIdle
    /\ frames \in FrameSeqs
    /\ nread = 0
    /\ producer = "read"
    /\ pending = 0
    /\ channel = <<>>
    /\ chClosed = FALSE
    /\ connClosed = FALSE
    /\ delivered = <<>>
    /\ cancelled = FALSE
    /\ streamErr = "nil"

StreamPipeline == StreamRead \/ StreamSend \/ StreamAbort

StreamNext == StreamRead \/ StreamSend \/ StreamAbort \/ StreamCancel \/ StreamReceive

\* the pipeline runs on a task of its own, which is scheduled; the consumer
\* and the caller of the cancellation handle are under no obligation
StreamSpec == StreamInit /\ [][StreamNext]_vars /\ WF_vars(StreamPipeline)

\* ---- vocabulary of the streaming properties ----

IsPrefix(s, t) == Len(s) <= Len(t) /\ \A i \in 1..Len(s) : s[i] = t[i]

\* the termination sentinel has been read
SentinelSeen == nread > 0 /\ frames[nread] = "sentinel"

\* the well-formed frames among the first k of the connection, in receipt order
WellFormedAmong(k) == SelectSeq([i \in 1..k |-> i], LAMBDA i : frames[i] = "delta")

\* what has been put on the channel so far
Produced == delivered \o channel

\* C14: the deltas the consumer receives are, in receipt order and without
\* duplicate, the well-formed frames read before the termination sentinel:
\* what was put on the channel is always a prefix of them, a malformed frame
\* never among them; the channel is closed once the sentinel is read, and a
\* consumer that has drained it has then received exactly all of them; an
\* uncancelled stream closes without a diagnostic only on the sentinel.
C14_DeltasInReceiptOrder ==
    /\ IsPrefix(Produced, WellFormedAmong(nread))
    /\ SentinelSeen => chClosed
    /\ (SentinelSeen /\ channel = <<>>) => delivered = WellFormedAmong(nread - 1)
    /\ (chClosed /\ ~cancelled /\ streamErr = "nil") => SentinelSeen

\* well-formed, malformed, well-formed, sentinel: the consumer has received
\* the two well-formed deltas and the channel is closed
C14_Witness ==
    /\ frames = << "delta", "malformed", "delta", "sentinel" >>
    /\ delivered = << 1, 3 >>
    /\ chClosed
    /\ ~cancelled
    /\ streamErr = "nil"

\* C15: once the cancellation handle has been invoked, no further frame is
\* read from the connection, and the channel is eventually closed, whatever
\* the number of deltas still unconsumed and although the consumer is under
\* no obligation to receive.
C15_CancelStopsAndCloses ==
    /\ [][cancelled => nread' = nread]_vars
    /\ (cancelled ~> (chClosed /\ connClosed))

\* cancelled before the sentinel with the channel full, a further delta
\* waiting to be sent and a consumer that never received: closed all the same
C15_Witness ==
    /\ cancelled
    /\ chClosed
    /\ connClosed
    /\ ~SentinelSeen
    /\ streamErr = "nil"
    /\ delivered = <<>>
    /\ Len(channel) = ChanCap
    /\ nread = ChanCap + 1
    /\ nread < Len(frames)

====
